---- MODULE Spec2Model ----
(***************************************************************************)
(* Model of the option-pricing core of quant-playground (package qp):      *)
(* qp/derivatives.py (bs_price, bs_greeks, binomial_price, parity          *)
(* utilities) and the legacy qp/options.py.                                *)
(*                                                                         *)
(* Python floats are modelled as fixed-point numbers: the integer n stands *)
(* for the real n / SCALE.  Every arithmetic operation rounds its exact    *)
(* result to the nearest representable number, symmetrically in the sign,  *)
(* as IEEE-754 arithmetic does; the unit of least precision is therefore   *)
(* 1/SCALE instead of 2^-52 relative, and tolerances are stated in units   *)
(* of 1/SCALE.  exp, log, sqrt and erf are computed (series, bisection),   *)
(* not tabulated.                                                          *)
(***************************************************************************)
EXTENDS Integers, Sequences, FiniteSets, TLC

(***************************************************************************)
(* Fixed-point arithmetic (the float operators of the source).             *)
(***************************************************************************)
SCALE == 10000

HALF == SCALE \div 2

Abs(x) == IF x < 0 THEN -x ELSE x

Sgn(x) == IF x < 0 THEN -1 ELSE IF x = 0 THEN 0 ELSE 1

Max2(a, b) == IF b > a THEN b ELSE a

Min2(a, b) == IF b < a THEN b ELSE a

\* |a|*|b|/SCALE rounded to nearest, computed without leaving 32 bits.
MulMag(a, b) ==
    LET hi == IF a >= b THEN a ELSE b
        lo == IF a >= b THEN b ELSE a
    IN  (hi \div SCALE) * lo + ((hi % SCALE) * lo + HALF) \div SCALE

\* float * float
FMul(a, b) == Sgn(a) * Sgn(b) * MulMag(Abs(a), Abs(b))

\* |a|/|b| in fixed point rounded to nearest, b > 0.
DivMag(a, b) == (a \div b) * SCALE + ((a % b) * SCALE + (b \div 2)) \div b

\* float / float, b # 0 (the callers raise ZeroDivisionError on b = 0)
FDiv(a, b) == Sgn(a) * Sgn(b) * DivMag(Abs(a), Abs(b))

\* int -> float
ToFloat(k) == k * SCALE

RECURSIVE SqrtIter(_, _, _)
\* largest s in lo..hi with s*s <= n (lo*lo <= n < (hi+1)*(hi+1))
SqrtIter(n, lo, hi) ==
    IF lo >= hi THEN lo
    ELSE LET mid == (lo + hi + 1) \div 2
         IN  IF mid <= n \div mid THEN SqrtIter(n, mid, hi)
             ELSE SqrtIter(n, lo, mid - 1)

\* math.sqrt(x), x >= 0
Sqrt(x) ==
    LET n == x * SCALE
        s == SqrtIter(n, 0, Max2(x, SCALE))
    IN  IF n - s * s > s THEN s + 1 ELSE s

RECURSIVE ExpSeries(_, _, _, _)
\* sum of x^k / k! from the term given (term = x^k/k!) on, 0 <= x <= SCALE
ExpSeries(x, term, k, acc) ==
    IF term = 0 THEN acc
    ELSE ExpSeries(x, (FMul(term, x) + ((k + 1) \div 2)) \div (k + 1), k + 1, acc + term)

ExpUnit(x) == ExpSeries(x, SCALE, 0, 0)

RECURSIVE ExpPos(_)
ExpPos(x) ==
    IF x <= SCALE THEN ExpUnit(x)
    ELSE FMul(ExpUnit(SCALE), ExpPos(x - SCALE))

RECURSIVE ExpNeg(_)
\* exp(-x), x >= 0; below half a unit of the last place from 12 on
ExpNeg(x) ==
    IF x >= 12 * SCALE THEN 0
    ELSE IF x <= SCALE THEN FDiv(SCALE, ExpUnit(x))
    ELSE FMul(FDiv(SCALE, ExpUnit(SCALE)), ExpNeg(x - SCALE))

\* math.exp(x)
Exp(x) == IF x >= 0 THEN ExpPos(x) ELSE ExpNeg(-x)

RECURSIVE AtanhSeries(_, _, _, _)
\* sum of z^(2k+1)/(2k+1) from the power given (pw = z^m, m odd) on
AtanhSeries(z2, pw, m, acc) ==
    IF pw = 0 THEN acc
    ELSE AtanhSeries(z2, FMul(pw, z2), m + 2, acc + Sgn(pw) * ((Abs(pw) + (m \div 2)) \div m))

\* math.log(x), x > 0 (the callers raise ValueError on x <= 0)
Log(x) ==
    LET z == FDiv(x - SCALE, x + SCALE)
    IN  2 * AtanhSeries(FMul(z, z), z, 1, 0)

RECURSIVE Pow(_, _)
\* float ** int, j >= 0
Pow(b, j) == IF j = 0 THEN SCALE ELSE FMul(Pow(b, j - 1), b)

\* math.erf(x), x >= 0: 1 - (a1 t + ... + a5 t^5) exp(-x^2), t = 1/(1 + p x)
ErfPos(x) ==
    LET c(n) == (n * SCALE) \div 100000
        t  == FDiv(SCALE, SCALE + FMul(c(32759), x))
        h5 == c(106141)
        h4 == FMul(h5, t) - c(145315)
        h3 == FMul(h4, t) + c(142141)
        h2 == FMul(h3, t) - c(28450)
        h1 == FMul(h2, t) + c(25483)
        y  == SCALE - FMul(FMul(h1, t), ExpNeg(FMul(x, x)))
    IN  Max2(0, Min2(SCALE, y))

\* math.erf(x): odd, as the library function is
Erf(x) == IF x >= 0 THEN ErfPos(x) ELSE -ErfPos(-x)

(***************************************************************************)
(* Outcomes of a call: a returned value or a raised exception.             *)
(***************************************************************************)
Ret(v) == [kind |-> "return", value |-> v, error |-> "none"]

Raise(e) == [kind |-> "raise", value |-> 0, error |-> e]

ErrOptionType == "ValueError: option_type must be 'call' or 'put'"

ErrSteps == "ValueError: steps must be >= 1"

ErrSigma == "ValueError: sigma must be >= 0"

ErrMathDomain == "ValueError: math domain error"

ErrZeroDivision == "ZeroDivisionError: float division by zero"

\* The three failures raised by the functions' own entry checks.
ValidationErrors == {ErrOptionType, ErrSteps, ErrSigma}

(***************************************************************************)
(* Option tags: strings as sequences of characters; str.lower().           *)
(***************************************************************************)
UpperLetters == <<"A","B","C","D","E","F","G","H","I","J","K","L","M",
                  "N","O","P","Q","R","S","T","U","V","W","X","Y","Z">>

LowerLetters == <<"a","b","c","d","e","f","g","h","i","j","k","l","m",
                  "n","o","p","q","r","s","t","u","v","w","x","y","z">>

LowerChar(c) ==
    IF \E i \in DOMAIN UpperLetters : UpperLetters[i] = c
    THEN LowerLetters[CHOOSE i \in DOMAIN UpperLetters : UpperLetters[i] = c]
    ELSE c

\* a lower() that folds the first letter only
Lower_first_only(s) ==
    [i \in DOMAIN s |-> IF i = 1 THEN LowerChar(s[i]) ELSE s[i]]

\* option_type.lower()
Lower(s) == [i \in DOMAIN s |-> LowerChar(s[i])]

CALL == <<"c","a","l","l">>

PUT == <<"p","u","t">>

(***************************************************************************)
(* Math primitives of derivatives.py                                       *)
(***************************************************************************)
PI == (31416 * SCALE) \div 10000

\* _norm_cdf: 0.5 * (1.0 + erf(x / sqrt(2.0)))
norm_cdf(x) == FMul(HALF, SCALE + Erf(FDiv(x, Sqrt(2 * SCALE))))

\* _norm_pdf: (1.0 / sqrt(2.0 * pi)) * exp(-0.5 * x * x)
norm_pdf(x) ==
    FMul(FDiv(SCALE, Sqrt(FMul(2 * SCALE, PI))), Exp(FMul(FMul(-HALF, x), x)))

\* _d1: (log(S / K) + (r - q + 0.5 * sigma * sigma) * T) / (sigma * sqrt(T));
\* S / K, log and the final division raise on their own.
d1(S, K, r, q, sigma, T) ==
    IF K = 0 THEN Raise(ErrZeroDivision)
    ELSE IF FDiv(S, K) <= 0 THEN Raise(ErrMathDomain)
    ELSE LET num == Log(FDiv(S, K)) + FMul(r - q + FMul(FMul(HALF, sigma), sigma), T)
             den == FMul(sigma, Sqrt(T))
         IN  IF den = 0 THEN Raise(ErrZeroDivision) ELSE Ret(FDiv(num, den))

\* _d2: _d1(...) - sigma * sqrt(T)
d2(S, K, r, q, sigma, T) ==
    LET o == d1(S, K, r, q, sigma, T)
    IN  IF o.kind = "raise" THEN o ELSE Ret(o.value - FMul(sigma, Sqrt(T)))

\* Intrinsic without the floor at 0
Intrinsic_no_floor(S, K, ot) == IF ot = CALL THEN S - K ELSE K - S

\* max(S - K, 0.0) if option_type == "call" else max(K - S, 0.0)
Intrinsic(S, K, ot) == IF ot = CALL THEN Max2(S - K, 0) ELSE Max2(K - S, 0)

\* bs_closed_form with the put's two signs dropped: N(d2), N(d1) for N(-d2), N(-d1)
bs_closed_form_put_sign_slip(S, K, r, q, sigma, T, ot) ==
    LET o1 == d1(S, K, r, q, sigma, T)
        o2 == d2(S, K, r, q, sigma, T)
    IN  IF o1.kind = "raise" THEN o1
        ELSE IF ot = CALL
        THEN Ret(FMul(FMul(S, Exp(FMul(-q, T))), norm_cdf(o1.value))
                 - FMul(FMul(K, Exp(FMul(-r, T))), norm_cdf(o2.value)))
        ELSE Ret(FMul(FMul(K, Exp(FMul(-r, T))), norm_cdf(o2.value))
                 - FMul(FMul(S, Exp(FMul(-q, T))), norm_cdf(o1.value)))

\* the closed form of bs_price, lines 69-75
bs_closed_form(S, K, r, q, sigma, T, ot) ==
    LET o1 == d1(S, K, r, q, sigma, T)
        o2 == d2(S, K, r, q, sigma, T)
    IN  IF o1.kind = "raise" THEN o1
        ELSE IF ot = CALL
        THEN Ret(FMul(FMul(S, Exp(FMul(-q, T))), norm_cdf(o1.value))
                 - FMul(FMul(K, Exp(FMul(-r, T))), norm_cdf(o2.value)))
        ELSE Ret(FMul(FMul(K, Exp(FMul(-r, T))), norm_cdf(-o2.value))
                 - FMul(FMul(S, Exp(FMul(-q, T))), norm_cdf(-o1.value)))

\* the sigma <= 0 branch of bs_price, lines 66-67
bs_forward_intrinsic(S, K, r, q, T, ot) ==
    LET fwd_disc == FMul(S, Exp(FMul(-q, T))) - FMul(K, Exp(FMul(-r, T)))
    IN  IF ot = CALL THEN Max2(fwd_disc, 0) ELSE Max2(-fwd_disc, 0)

\* bs_price with the two edge branches tested in the other order
bs_price_sigma_first(S, K, r, q, sigma, T, option_type) ==
    LET ot == Lower(option_type)
    IN  IF ot \notin {CALL, PUT} THEN Raise(ErrOptionType)
        ELSE IF sigma <= 0 THEN Ret(bs_forward_intrinsic(S, K, r, q, T, ot))
        ELSE IF T <= 0 THEN Ret(Intrinsic(S, K, ot))
        ELSE bs_closed_form(S, K, r, q, sigma, T, ot)

\* bs_price with the tag checked after the T <= 0 shortcut
bs_price_tag_after_T(S, K, r, q, sigma, T, option_type) ==
    LET ot == Lower(option_type)
    IN  IF T <= 0 THEN Ret(Intrinsic(S, K, ot))
        ELSE IF ot \notin {CALL, PUT} THEN Raise(ErrOptionType)
        ELSE IF sigma <= 0 THEN Ret(bs_forward_intrinsic(S, K, r, q, T, ot))
        ELSE bs_closed_form(S, K, r, q, sigma, T, ot)

\* qp.derivatives.bs_price
bs_price(S, K, r, q, sigma, T, option_type) ==
    LET ot == Lower(option_type)
    IN  IF ot \notin {CALL, PUT} THEN Raise(ErrOptionType)
        ELSE IF T <= 0 THEN Ret(Intrinsic(S, K, ot))
        ELSE IF sigma <= 0 THEN Ret(bs_forward_intrinsic(S, K, r, q, T, ot))
        ELSE bs_closed_form(S, K, r, q, sigma, T, ot)

(***************************************************************************)
(* qp.derivatives.binomial_price: the CRR lattice.  The working array      *)
(* `values` is a function on 0..len-1, indexed as the Python list is.      *)
(***************************************************************************)
\* binomial_validation without the check of sigma
binomial_validation_no_sigma(sigma, steps, option_type) ==
    IF Lower(option_type) \notin {CALL, PUT} THEN ErrOptionType
    ELSE IF steps < 1 THEN ErrSteps
    ELSE "none"

\* the entry checks, lines 119-125: "none" when they pass
binomial_validation(sigma, steps, option_type) ==
    IF Lower(option_type) \notin {CALL, PUT} THEN ErrOptionType
    ELSE IF steps < 1 THEN ErrSteps
    ELSE IF sigma < 0 THEN ErrSigma
    ELSE "none"

\* clamp left out
clamp_left_out(p) == p

\* if not (0.0 <= p <= 1.0): p = min(1.0, max(0.0, p))
clamp(p) == IF ~(0 <= p /\ p <= SCALE) THEN Min2(SCALE, Max2(0, p)) ELSE p

\* lines 130-136: dt, u, d, disc, p; the division by u - d raises when u = d
lattice_params(r, q, sigma, T, steps) ==
    LET dt   == FDiv(T, ToFloat(steps))
        u    == Exp(FMul(sigma, Sqrt(dt)))
        d    == FDiv(SCALE, u)
        disc == Exp(FMul(-r, dt))
    IN  IF u - d = 0 THEN Raise(ErrZeroDivision)
        ELSE LET p == FDiv(Exp(FMul(r - q, dt)) - d, u - d)
             IN  Ret([dt |-> dt, u |-> u, d |-> d, disc |-> disc,
                      p_raw |-> p, p |-> clamp(p)])

\* S * (u ** j) * (d ** (n - j))
node_spot(S, u, d, n, j) == FMul(FMul(S, Pow(u, j)), Pow(d, n - j))

\* terminal payoffs without the floor at zero
terminal_payoffs_unfloored(S, K, u, d, steps, ot) ==
    [j \in 0..steps |->
        LET S_T == node_spot(S, u, d, steps, j)
        IN  IF ot = CALL THEN S_T - K ELSE K - S_T]

\* terminal payoffs with the top node entered twice: steps+2 entries
terminal_payoffs_one_more(S, K, u, d, steps, ot) ==
    [j \in 0..(steps + 1) |->
        LET S_T == node_spot(S, u, d, steps, Min2(j, steps))
        IN  IF ot = CALL THEN Max2(S_T - K, 0) ELSE Max2(K - S_T, 0)]

\* lines 139-143: the steps+1 terminal payoffs
terminal_payoffs(S, K, u, d, steps, ot) ==
    [j \in 0..steps |->
        LET S_T == node_spot(S, u, d, steps, j)
        IN  IF ot = CALL THEN Max2(S_T - K, 0) ELSE Max2(K - S_T, 0)]

\* exercise at the spot one up-move too high
exercise_one_up(S, K, u, d, n, j, ot) ==
    LET S_nj == node_spot(S, u, d, n + 1, j + 1)
        ex   == IF ot = CALL THEN S_nj - K ELSE K - S_nj
    IN  Max2(ex, 0)

\* lines 151-153: the immediate-exercise payoff at node (n, j)
exercise(S, K, u, d, n, j, ot) ==
    LET S_nj == node_spot(S, u, d, n, j)
        ex   == IF ot = CALL THEN S_nj - K ELSE K - S_nj
    IN  Max2(ex, 0)

\* the continuation value left undiscounted
continuation_undiscounted(values, j, disc, p) ==
    FMul(p, values[j + 1]) + FMul(SCALE - p, values[j])

\* the continuation value with the two probabilities exchanged
continuation_p_swapped(values, j, disc, p) ==
    FMul(disc, FMul(p, values[j]) + FMul(SCALE - p, values[j + 1]))

\* line 149: disc * (p * values[j + 1] + (1.0 - p) * values[j])
continuation(values, j, disc, p) ==
    FMul(disc, FMul(p, values[j + 1]) + FMul(SCALE - p, values[j]))

\* induction_level with the early-exercise comparison left out
induction_level_never_exercised(values, n, S, K, lp, ot, american) ==
    [j \in 0..n |-> continuation(values, j, lp.disc, lp.p)]

\* induction_level taking the smaller of continuation and exercise
induction_level_min(values, n, S, K, lp, ot, american) ==
    [j \in 0..n |->
        LET cont == continuation(values, j, lp.disc, lp.p)
        IN  IF american
            THEN Min2(cont, exercise(S, K, lp.u, lp.d, n, j, ot))
            ELSE cont]

\* lines 147-157: one pass of the outer loop, level n
induction_level(values, n, S, K, lp, ot, american) ==
    [j \in 0..n |->
        LET cont == continuation(values, j, lp.disc, lp.p)
        IN  IF american
            THEN Max2(cont, exercise(S, K, lp.u, lp.d, n, j, ot))
            ELSE cont]

RECURSIVE backward_induction(_, _, _, _, _, _, _)
\* lines 146-157: levels n, n-1, ..., 0
backward_induction(values, n, S, K, lp, ot, american) ==
    IF n < 0 THEN values
    ELSE backward_induction(induction_level(values, n, S, K, lp, ot, american),
                            n - 1, S, K, lp, ot, american)

\* qp.derivatives.binomial_price, the whole call
binomial_price(S, K, r, q, sigma, T, steps, option_type, american) ==
    LET ot == Lower(option_type)
        v  == binomial_validation(sigma, steps, option_type)
    IN  IF v # "none" THEN Raise(v)
        ELSE IF T <= 0 THEN Ret(Intrinsic(S, K, ot))
        ELSE LET o == lattice_params(r, q, sigma, T, steps)
             IN  IF o.kind = "raise" THEN o
                 ELSE LET lp == o.value
                          tv == terminal_payoffs(S, K, lp.u, lp.d, steps, ot)
                      IN  Ret(backward_induction(tv, steps - 1, S, K, lp, ot,
                                                 american)[0])

(***************************************************************************)
(* qp.derivatives.bs_greeks                                                *)
(***************************************************************************)
GreekFields == {"price", "delta", "gamma", "vega", "theta", "rho", "phi"}

\* lines 190-193: the zero-filled record of the degenerate branches
zero_greeks(price) ==
    [price |-> price, delta |-> 0, gamma |-> 0, vega |-> 0,
     theta |-> 0, rho |-> 0, phi |-> 0]

\* the sensitivities with the put's gamma and vega given the put's sign
greeks_closed_form_put_signed(price, S, K, r, q, sigma, T, ot) ==
    LET o1 == d1(S, K, r, q, sigma, T)
        o2 == d2(S, K, r, q, sigma, T)
    IN  IF o1.kind = "raise" THEN o1
        ELSE
        LET Nd1    == norm_cdf(o1.value)
            Nd2    == norm_cdf(o2.value)
            nd1    == norm_pdf(o1.value)
            disc_r == Exp(FMul(-r, T))
            disc_q == Exp(FMul(-q, T))
            sqT    == Sqrt(T)
            decay  == FDiv(FMul(FMul(FMul(-S, disc_q), nd1), sigma), FMul(2 * SCALE, sqT))
            gamma  == FDiv(FMul(disc_q, nd1), FMul(FMul(S, sigma), sqT))
            vega   == FMul(FMul(FMul(S, disc_q), nd1), sqT)
        IN  IF FMul(FMul(S, sigma), sqT) = 0 \/ sqT = 0 THEN Raise(ErrZeroDivision)
            ELSE IF ot = CALL
            THEN Ret([price |-> price,
                      delta |-> FMul(disc_q, Nd1),
                      gamma |-> gamma,
                      vega  |-> vega,
                      theta |-> decay - FMul(FMul(FMul(r, K), disc_r), Nd2)
                                      + FMul(FMul(FMul(q, S), disc_q), Nd1),
                      rho   |-> FMul(FMul(FMul(K, T), disc_r), Nd2),
                      phi   |-> FMul(FMul(FMul(-T, S), disc_q), Nd1)])
            ELSE Ret([price |-> price,
                      delta |-> FMul(disc_q, Nd1 - SCALE),
                      gamma |-> -gamma,
                      vega  |-> -vega,
                      theta |-> decay + FMul(FMul(FMul(r, K), disc_r), SCALE - Nd2)
                                      - FMul(FMul(FMul(q, S), disc_q), SCALE - Nd1),
                      rho   |-> FMul(FMul(FMul(-K, T), disc_r), SCALE - Nd2),
                      phi   |-> FMul(FMul(FMul(T, S), disc_q), SCALE - Nd1)])

\* lines 195-228: the sensitivities, T > 0 and sigma > 0
greeks_closed_form(price, S, K, r, q, sigma, T, ot) ==
    LET o1 == d1(S, K, r, q, sigma, T)
        o2 == d2(S, K, r, q, sigma, T)
    IN  IF o1.kind = "raise" THEN o1
        ELSE
        LET Nd1    == norm_cdf(o1.value)
            Nd2    == norm_cdf(o2.value)
            nd1    == norm_pdf(o1.value)
            disc_r == Exp(FMul(-r, T))
            disc_q == Exp(FMul(-q, T))
            sqT    == Sqrt(T)
            decay  == FDiv(FMul(FMul(FMul(-S, disc_q), nd1), sigma), FMul(2 * SCALE, sqT))
            gamma  == FDiv(FMul(disc_q, nd1), FMul(FMul(S, sigma), sqT))
            vega   == FMul(FMul(FMul(S, disc_q), nd1), sqT)
        IN  IF FMul(FMul(S, sigma), sqT) = 0 \/ sqT = 0 THEN Raise(ErrZeroDivision)
            ELSE IF ot = CALL
            THEN Ret([price |-> price,
                      delta |-> FMul(disc_q, Nd1),
                      gamma |-> gamma,
                      vega  |-> vega,
                      theta |-> decay - FMul(FMul(FMul(r, K), disc_r), Nd2)
                                      + FMul(FMul(FMul(q, S), disc_q), Nd1),
                      rho   |-> FMul(FMul(FMul(K, T), disc_r), Nd2),
                      phi   |-> FMul(FMul(FMul(-T, S), disc_q), Nd1)])
            ELSE Ret([price |-> price,
                      delta |-> FMul(disc_q, Nd1 - SCALE),
                      gamma |-> gamma,
                      vega  |-> vega,
                      theta |-> decay + FMul(FMul(FMul(r, K), disc_r), SCALE - Nd2)
                                      - FMul(FMul(FMul(q, S), disc_q), SCALE - Nd1),
                      rho   |-> FMul(FMul(FMul(-K, T), disc_r), SCALE - Nd2),
                      phi   |-> FMul(FMul(FMul(T, S), disc_q), SCALE - Nd1)])

\* bs_greeks with d1 and d2 evaluated before the T <= 0 or sigma <= 0 test
bs_greeks_d1_first(S, K, r, q, sigma, T, option_type) ==
    LET ot == Lower(option_type)
    IN  IF ot \notin {CALL, PUT} THEN Raise(ErrOptionType)
        ELSE LET price == bs_price(S, K, r, q, sigma, T, ot)
                 o1    == d1(S, K, r, q, sigma, T)
             IN  IF price.kind = "raise" THEN price
                 ELSE IF o1.kind = "raise" THEN o1
                 ELSE IF T <= 0 \/ sigma <= 0 THEN Ret(zero_greeks(price.value))
                 ELSE greeks_closed_form(price.value, S, K, r, q, sigma, T, ot)

\* qp.derivatives.bs_greeks
bs_greeks(S, K, r, q, sigma, T, option_type) ==
    LET ot == Lower(option_type)
    IN  IF ot \notin {CALL, PUT} THEN Raise(ErrOptionType)
        ELSE LET price == bs_price(S, K, r, q, sigma, T, ot)
             IN  IF price.kind = "raise" THEN price
                 ELSE IF T <= 0 \/ sigma <= 0 THEN Ret(zero_greeks(price.value))
                 ELSE greeks_closed_form(price.value, S, K, r, q, sigma, T, ot)

(***************************************************************************)
(* qp.options: the legacy module.  No .lower(), no check of the tag: any   *)
(* tag other than "call" is priced as a put.                               *)
(***************************************************************************)
\* max(S - K, 0.0) if option_type == "call" else max(K - S, 0.0), tag as given
options_intrinsic(S, K, option_type) ==
    IF option_type = CALL THEN Max2(S - K, 0) ELSE Max2(K - S, 0)

\* qp.options.bs_price
options_bs_price(S, K, r, q, sigma, T, option_type) ==
    IF T <= 0 THEN Ret(options_intrinsic(S, K, option_type))
    ELSE IF sigma <= 0
    THEN LET fwd_disc == FMul(S, Exp(FMul(-q, T))) - FMul(K, Exp(FMul(-r, T)))
         IN  Ret(IF option_type = CALL THEN Max2(fwd_disc, 0) ELSE Max2(-fwd_disc, 0))
    ELSE LET o1 == d1(S, K, r, q, sigma, T)
         IN  IF o1.kind = "raise" THEN o1
             ELSE LET dd1 == o1.value
                      dd2 == dd1 - FMul(sigma, Sqrt(T))
                  IN  IF option_type = CALL
                      THEN Ret(FMul(FMul(S, Exp(FMul(-q, T))), norm_cdf(dd1))
                               - FMul(FMul(K, Exp(FMul(-r, T))), norm_cdf(dd2)))
                      ELSE Ret(FMul(FMul(K, Exp(FMul(-r, T))), norm_cdf(-dd2))
                               - FMul(FMul(S, Exp(FMul(-q, T))), norm_cdf(-dd1)))

\* qp.options.binomial_price: steps, then T <= 0, then sigma
options_binomial_price(S, K, r, q, sigma, T, steps, option_type, american) ==
    LET ot == IF option_type = CALL THEN CALL ELSE PUT
    IN  IF steps < 1 THEN Raise(ErrSteps)
        ELSE IF T <= 0 THEN Ret(options_intrinsic(S, K, option_type))
        ELSE IF sigma < 0 THEN Raise(ErrSigma)
        ELSE LET o == lattice_params(r, q, sigma, T, steps)
             IN  IF o.kind = "raise" THEN o
                 ELSE LET lp == o.value
                          tv == terminal_payoffs(S, K, lp.u, lp.d, steps, ot)
                      IN  Ret(backward_induction(tv, steps - 1, S, K, lp, ot,
                                                 american)[0])

(***************************************************************************)
(* qp.derivatives: the parity utilities                                    *)
(***************************************************************************)
\* A float keeps a fixed number of significant digits, so a sum or a
\* difference is rounded to the nearest float.  Here a significand is below
\* MANT; every value below MANT (100 at the scale of the model) is a float,
\* as every quantity of the pricing grid is, and above it the grain grows
\* by powers of ten.
MANT == 1000000

RECURSIVE GrainFrom(_, _)
GrainFrom(m, g) == IF m < MANT * g THEN g ELSE GrainFrom(m, 10 * g)

\* the spacing of the floats at the magnitude of x
Grain(x) == GrainFrom(Abs(x), 1)

\* the nearest float to x
RoundFloat(x) ==
    LET g == Grain(x) IN Sgn(x) * (((Abs(x) + (g \div 2)) \div g) * g)

\* a + b and a - b of two floats
FAdd(a, b) == RoundFloat(a + b)

FSub(a, b) == RoundFloat(a - b)

\* S * exp(-q * T) and K * exp(-r * T)
Discounted(X, rate, T) == RoundFloat(FMul(X, Exp(FMul(-rate, T))))

\* put_from_call with the forward added instead of subtracted
put_from_call_sign_slip(call_price, S, K, r, q, T) ==
    FSub(FAdd(call_price, Discounted(S, q, T)), Discounted(K, r, T))

\* call - S * exp(-q * T) + K * exp(-r * T)
put_from_call(call_price, S, K, r, q, T) ==
    FAdd(FSub(call_price, Discounted(S, q, T)), Discounted(K, r, T))

\* put + S * exp(-q * T) - K * exp(-r * T)
call_from_put(put_price, S, K, r, q, T) ==
    FSub(FAdd(put_price, Discounted(S, q, T)), Discounted(K, r, T))

\* (call - put) - (S * exp(-q * T) - K * exp(-r * T))
parity_gap(call, put, S, K, r, q, T) ==
    FSub(FSub(call, put), FSub(Discounted(S, q, T), Discounted(K, r, T)))

\* parity_bounds with the call's lower bound copied to the put
parity_bounds_put_lb_copied(S, K, r, q, T) ==
    LET disc_r == Exp(FMul(-r, T))
        disc_q == Exp(FMul(-q, T))
    IN  << << Max2(0, FSub(RoundFloat(FMul(S, disc_q)), RoundFloat(FMul(K, disc_r)))),
              RoundFloat(FMul(S, disc_q)) >>,
           << Max2(0, FSub(RoundFloat(FMul(S, disc_q)), RoundFloat(FMul(K, disc_r)))),
              RoundFloat(FMul(K, disc_r)) >> >>

\* parity_bounds: ((call_lb, call_ub), (put_lb, put_ub))
parity_bounds(S, K, r, q, T) ==
    LET disc_r == Exp(FMul(-r, T))
        disc_q == Exp(FMul(-q, T))
    IN  << << Max2(0, FSub(RoundFloat(FMul(S, disc_q)), RoundFloat(FMul(K, disc_r)))),
              RoundFloat(FMul(S, disc_q)) >>,
           << Max2(0, FSub(RoundFloat(FMul(K, disc_r)), RoundFloat(FMul(S, disc_q)))),
              RoundFloat(FMul(K, disc_r)) >> >>

(***************************************************************************)
(* qp.fixed_income.bond_price and the legacy qp.bonds.bond_price           *)
(***************************************************************************)
\* float("inf") and float("-inf"): beyond every finite float of the model
INF == 1073741824

IsInf(x) == x = INF \/ x = -INF

\* freq as the caller passes it: an int, or a float of the same value
IntFreq(k) == [is_int |-> TRUE, value |-> k]

FloatFreq(k) == [is_int |-> FALSE, value |-> k]

ErrFaceValue == "ValueError: face_value must be > 0"

ErrMaturity == "ValueError: maturity must be > 0 (years)"

ErrFreq == "ValueError: freq must be a positive integer"

ErrPeriods == "ValueError: maturity * freq must be >= 1"

ErrYtm == "ValueError: ytm leads to division by zero"

\* the messages of qp/bonds.py, as spelled there
ErrFaceValueLegacy == "ValueError: face_value muss > 0 sein"

ErrFreqLegacy == "ValueError: frew muss eine postitive ganze Zahl sein"

ErrPeriodsLegacy == "ValueError: maturity*freq muss >= 1 sein"

ErrYtmLegacy == "ValueError: ytm fuehrt zu Division durch 0"

\* round() of an infinite float
ErrOverflow == "OverflowError: cannot convert float infinity to integer"

\* the ValueErrors of the two bond_price functions
BondValueErrors ==
    {ErrFaceValue, ErrMaturity, ErrFreq, ErrPeriods, ErrYtm,
     ErrFaceValueLegacy, ErrFreqLegacy, ErrPeriodsLegacy, ErrYtmLegacy}

\* maturity * freq, freq an int >= 1
TimesFreq(maturity, k) == IF IsInf(maturity) THEN maturity ELSE maturity * k

\* round(x) of a finite float: to the nearest integer, a tie to the even one
RoundHalfEven(x) ==
    LET lo   == (x - (x % SCALE)) \div SCALE
        rest == x % SCALE
    IN  IF 2 * rest > SCALE THEN lo + 1
        ELSE IF 2 * rest < SCALE THEN lo
        ELSE IF lo % 2 = 0 THEN lo ELSE lo + 1

\* int(round(maturity * freq)): round() raises on an infinite float
round_periods(maturity, k) ==
    IF IsInf(TimesFreq(maturity, k)) THEN Raise(ErrOverflow)
    ELSE Ret(RoundHalfEven(TimesFreq(maturity, k)))

\* np.sum(c / (1 + y) ** t), t = 1, ..., m
RECURSIVE pv_coupons(_, _, _)
pv_coupons(c, y, m) ==
    IF m = 0 THEN 0 ELSE pv_coupons(c, y, m - 1) + FDiv(c, Pow(SCALE + y, m))

\* the present value of the coupons c and of the face value over np periods
\* at the yield y per period; np.isclose(1 + y, 0.0) raises err
bond_pv(face_value, c, y, np, err) ==
    IF SCALE + y = 0 THEN Raise(err)
    ELSE Ret(pv_coupons(c, y, np) + FDiv(face_value, Pow(SCALE + y, np)))

\* qp.fixed_income.bond_price
fixed_income_bond_price(face_value, maturity, coupon_rate, ytm, freq) ==
    IF face_value <= 0 THEN Raise(ErrFaceValue)
    ELSE IF maturity <= 0 THEN Raise(ErrMaturity)
    ELSE IF ~freq.is_int \/ freq.value < 1 THEN Raise(ErrFreq)
    ELSE LET k  == freq.value
             np == round_periods(maturity, k)
         IN  IF np.kind = "raise" THEN np
             ELSE IF np.value < 1 THEN Raise(ErrPeriods)
             ELSE bond_pv(face_value,
                          FDiv(FMul(face_value, coupon_rate), k * SCALE),
                          FDiv(ytm, k * SCALE), np.value, ErrYtm)

\* qp.bonds.bond_price: no test of the maturity itself
bonds_bond_price(face_value, maturity, coupon_rate, ytm, freq) ==
    IF face_value <= 0 THEN Raise(ErrFaceValueLegacy)
    ELSE IF ~freq.is_int \/ freq.value < 1 THEN Raise(ErrFreqLegacy)
    ELSE LET k  == freq.value
             np == round_periods(maturity, k)
         IN  IF np.kind = "raise" THEN np
             ELSE IF np.value < 1 THEN Raise(ErrPeriodsLegacy)
             ELSE bond_pv(face_value,
                          FDiv(FMul(coupon_rate, face_value), k * SCALE),
                          FDiv(ytm, k * SCALE), np.value, ErrYtmLegacy)

(***************************************************************************)
(* qp.performance.sharpe and the legacy qp.metrics.sharpe.  A series is a  *)
(* sequence of floats, NaN among them.                                     *)
(***************************************************************************)
\* float("nan"): no finite float of the model
NaN == 1073741825

IsNaN(x) == x = NaN

\* risk_free as the caller passes it: a scalar, or a series
ScalarRate(x) == [is_scalar |-> TRUE, value |-> x, series |-> <<>>]

SeriesRate(xs) == [is_scalar |-> FALSE, value |-> 0, series |-> xs]

ErrRiskFreeShape ==
    "ValueError: risk_free must be scalar or have the same shape as returns"

ErrRiskFreeShapeLegacy ==
    "ValueError: risk_free muss skalar sein oder gleiche Form wie returns"

\* a - b of two floats, NaN when one of them is
SubNaN(a, b) == IF IsNaN(a) \/ IsNaN(b) THEN NaN ELSE a - b

\* r[~np.isnan(r)]
DropNaN(xs) == SelectSeq(xs, LAMBDA x : ~IsNaN(x))

RECURSIVE SumSeq(_)
SumSeq(xs) == IF xs = <<>> THEN 0 ELSE Head(xs) + SumSeq(Tail(xs))

\* np.nanmean: the mean of the entries that are not NaN, NaN when none is
nanmean(xs) ==
    LET ys == DropNaN(xs)
    IN  IF ys = <<>> THEN NaN ELSE FDiv(SumSeq(ys), Len(ys) * SCALE)

\* np.nanstd(xs, ddof=ddof): NaN when no more than ddof entries are left
nanstd(xs, ddof) ==
    LET ys == DropNaN(xs)
        m  == nanmean(xs)
        sq == [i \in DOMAIN ys |-> FMul(ys[i] - m, ys[i] - m)]
    IN  IF Len(ys) - ddof <= 0 THEN NaN
        ELSE Sqrt(FDiv(SumSeq(sq), (Len(ys) - ddof) * SCALE))

\* lines 53-59 of performance.py: mean, std, the zero for a std that is 0
\* or not finite, and the annualised ratio
sharpe_ratio(excess, periods_per_year, ddof) ==
    LET mean == nanmean(excess)
        std  == nanstd(excess, ddof)
    IN  IF std = 0 \/ IsNaN(std) THEN Ret(0)
        ELSE Ret(FMul(FDiv(mean, std), Sqrt(periods_per_year * SCALE)))

\* qp.performance.sharpe: the NaN entries of the returns are dropped first
performance_sharpe(returns, risk_free, periods_per_year, ddof) ==
    LET r == DropNaN(returns)
    IN  IF risk_free.is_scalar
        THEN sharpe_ratio([i \in DOMAIN r |-> SubNaN(r[i], risk_free.value)],
                          periods_per_year, ddof)
        ELSE IF Len(risk_free.series) # Len(r) THEN Raise(ErrRiskFreeShape)
        ELSE sharpe_ratio([i \in DOMAIN r |-> SubNaN(r[i], risk_free.series[i])],
                          periods_per_year, ddof)

\* qp.metrics.sharpe: the returns as passed
metrics_sharpe(returns, risk_free, periods_per_year, ddof) ==
    LET r == returns
    IN  IF risk_free.is_scalar
        THEN sharpe_ratio([i \in DOMAIN r |-> SubNaN(r[i], risk_free.value)],
                          periods_per_year, ddof)
        ELSE IF Len(risk_free.series) # Len(r) THEN Raise(ErrRiskFreeShapeLegacy)
        ELSE sharpe_ratio([i \in DOMAIN r |-> SubNaN(r[i], risk_free.series[i])],
                          periods_per_year, ddof)

(***************************************************************************)
(* The inputs the calls are made with.                                     *)
(***************************************************************************)
MaxSteps == 3

SpotValues == {-SCALE, SCALE, 2 * SCALE}

StrikeValues == {0, SCALE, 2 * SCALE}

RateValues == {-(SCALE \div 10), 0, SCALE \div 20, SCALE \div 5}

YieldValues == {0, SCALE \div 5}

SigmaValues == {-(SCALE \div 5), 0, SCALE \div 10, (2 * SCALE) \div 5}

MaturityValues == {-SCALE, 0, SCALE}

StepValues == 0..MaxSteps

TagValues == {CALL, PUT, <<"C","A","L","L">>, <<"P","u","t">>, <<"s","w","a","p">>}

BsArgs ==
    [S : SpotValues, K : StrikeValues, r : RateValues, q : YieldValues,
     sigma : SigmaValues, T : MaturityValues, steps : {0},
     option_type : TagValues, american : {FALSE}]

BinomialArgs ==
    [S : SpotValues, K : StrikeValues, r : RateValues, q : YieldValues,
     sigma : SigmaValues, T : MaturityValues, steps : StepValues,
     option_type : TagValues, american : BOOLEAN]

\* the arguments of parity_bounds: the grid of the pricing functions
BoundsArgs ==
    [S : SpotValues, K : StrikeValues, r : RateValues, q : YieldValues,
     T : MaturityValues]

\* the arguments of put_from_call, call_from_put and parity_gap: prices of
\* 0.0001 and 1 against spots and strikes of 1 and of a few hundred, where
\* the spacing of the floats is wider than the price
ParityPrices == {1, SCALE}

ParitySpots == {SCALE, 200 * SCALE}

ParityStrikes == {SCALE, 150 * SCALE}

ParityArgs ==
    [price : ParityPrices, S : ParitySpots, K : ParityStrikes,
     r : {0, SCALE \div 20}, q : YieldValues, T : {0, SCALE}]

GapArgs ==
    [call : ParityPrices, put : ParityPrices, S : ParitySpots,
     K : ParityStrikes, r : {0, SCALE \div 20}, q : YieldValues, T : {0, SCALE}]

\* the arguments of bond_price: maturities on both sides of the rounding
\* ties 0.5, 1.5 and 2.5, an int freq and a float one
BondFaceValues == {-SCALE, 0, SCALE, 100 * SCALE}

BondMaturities ==
    {-INF, -SCALE, 0, SCALE \div 4, SCALE \div 2, SCALE, (3 * SCALE) \div 2,
     (5 * SCALE) \div 2}

BondFreqs == {IntFreq(-1), IntFreq(0), IntFreq(1), IntFreq(2), FloatFreq(2)}

BondArgs ==
    [face_value : BondFaceValues, maturity : BondMaturities,
     coupon_rate : {0, SCALE \div 20}, ytm : {-SCALE, SCALE \div 20},
     freq : BondFreqs]

\* the arguments of sharpe: series of up to MaxLen entries
MaxLen == 3

SeriesOver(V) == UNION {[1..k -> V] : k \in 0..MaxLen}

ReturnValues == {NaN, -(SCALE \div 5), SCALE \div 10}

RateValuesPerPeriod == {0, SCALE \div 20}

SharpeArgs ==
    [returns : SeriesOver(ReturnValues),
     risk_free : {ScalarRate(x) : x \in RateValuesPerPeriod}
                 \cup {SeriesRate(xs) : xs \in SeriesOver(RateValuesPerPeriod)},
     periods_per_year : {12}, ddof : {0, 1}]

(***************************************************************************)
(* The state: one call at a time.  pc is the position of the call in       *)
(* progress, fn and args name it, values/n/loc are binomial_price's        *)
(* locals during the backward induction, result is the call's outcome.     *)
(* frames holds the same for calls made from several threads at once, one  *)
(* frame of locals per thread.                                             *)
(***************************************************************************)
VARIABLES pc, fn, args, values, n, loc, result, frames

vars == <<pc, fn, args, values, n, loc, result, frames>>

Threads == {1, 2}

NoArgs ==
    [S |-> 0, K |-> 0, r |-> 0, q |-> 0, sigma |-> 0, T |-> 0, steps |-> 0,
     option_type |-> <<>>, american |-> FALSE]

NoLoc == [dt |-> 0, u |-> 0, d |-> 0, disc |-> 0, p_raw |-> 0, p |-> 0]

NoResult == [kind |-> "pending", value |-> 0, error |-> "none"]

\* a thread that is in no call
IdleFrame ==
    [pc |-> "idle", fn |-> "none", args |-> NoArgs, values |-> <<>>, n |-> 0,
     loc |-> NoLoc, result |-> NoResult]

Init ==
    /\ pc = "idle"
    /\ fn = "none"
    /\ args = NoArgs
    /\ values = <<>>
    /\ n = 0
    /\ loc = NoLoc
    /\ result = NoResult
    /\ frames = [t \in Threads |-> IdleFrame]

\* a function that runs as one step: the call and its outcome
Complete(f, a, out) ==
    /\ pc' = "done"
    /\ fn' = f
    /\ args' = a
    /\ result' = out
    /\ UNCHANGED <<values, n, loc, frames>>

CallBsPrice ==
    /\ pc = "idle"
    /\ \E a \in BsArgs :
         Complete("bs_price", a,
                  bs_price(a.S, a.K, a.r, a.q, a.sigma, a.T, a.option_type))

CallBsGreeks ==
    /\ pc = "idle"
    /\ \E a \in BsArgs :
         Complete("bs_greeks", a,
                  bs_greeks(a.S, a.K, a.r, a.q, a.sigma, a.T, a.option_type))

CallOptionsBsPrice ==
    /\ pc = "idle"
    /\ \E a \in BsArgs :
         Complete("options.bs_price", a,
                  options_bs_price(a.S, a.K, a.r, a.q, a.sigma, a.T, a.option_type))

CallOptionsBinomialPrice ==
    /\ pc = "idle"
    /\ \E a \in BinomialArgs :
         Complete("options.binomial_price", a,
                  options_binomial_price(a.S, a.K, a.r, a.q, a.sigma, a.T, a.steps,
                                         a.option_type, a.american))

CallPutFromCall ==
    /\ pc = "idle"
    /\ \E a \in ParityArgs :
         Complete("put_from_call", a,
                  Ret(put_from_call(a.price, a.S, a.K, a.r, a.q, a.T)))

CallCallFromPut ==
    /\ pc = "idle"
    /\ \E a \in ParityArgs :
         Complete("call_from_put", a,
                  Ret(call_from_put(a.price, a.S, a.K, a.r, a.q, a.T)))

CallParityGap ==
    /\ pc = "idle"
    /\ \E a \in GapArgs :
         Complete("parity_gap", a,
                  Ret(parity_gap(a.call, a.put, a.S, a.K, a.r, a.q, a.T)))

CallParityBounds ==
    /\ pc = "idle"
    /\ \E a \in BoundsArgs :
         Complete("parity_bounds", a, Ret(parity_bounds(a.S, a.K, a.r, a.q, a.T)))

CallFixedIncomeBondPrice ==
    /\ pc = "idle"
    /\ \E a \in BondArgs :
         Complete("fixed_income.bond_price", a,
                  fixed_income_bond_price(a.face_value, a.maturity,
                                          a.coupon_rate, a.ytm, a.freq))

CallBondsBondPrice ==
    /\ pc = "idle"
    /\ \E a \in BondArgs :
         Complete("bonds.bond_price", a,
                  bonds_bond_price(a.face_value, a.maturity, a.coupon_rate,
                                   a.ytm, a.freq))

CallPerformanceSharpe ==
    /\ pc = "idle"
    /\ \E a \in SharpeArgs :
         Complete("performance.sharpe", a,
                  performance_sharpe(a.returns, a.risk_free,
                                     a.periods_per_year, a.ddof))

CallMetricsSharpe ==
    /\ pc = "idle"
    /\ \E a \in SharpeArgs :
         Complete("metrics.sharpe", a,
                  metrics_sharpe(a.returns, a.risk_free, a.periods_per_year,
                                 a.ddof))

\* binomial_price, lines 119-143: entry checks, the T <= 0 shortcut, the
\* lattice parameters and the terminal payoffs
BinomialEnter ==
    /\ pc = "idle"
    /\ \E a \in BinomialArgs :
         LET v  == binomial_validation(a.sigma, a.steps, a.option_type)
             ot == Lower(a.option_type)
             o  == lattice_params(a.r, a.q, a.sigma, a.T, a.steps)
         IN  IF v # "none" THEN Complete("binomial_price", a, Raise(v))
             ELSE IF a.T <= 0
             THEN Complete("binomial_price", a, Ret(Intrinsic(a.S, a.K, ot)))
             ELSE IF o.kind = "raise" THEN Complete("binomial_price", a, o)
             ELSE /\ pc' = "induct"
                  /\ fn' = "binomial_price"
                  /\ args' = a
                  /\ loc' = o.value
                  /\ values' = terminal_payoffs(a.S, a.K, o.value.u, o.value.d,
                                                a.steps, ot)
                  /\ n' = a.steps - 1
                  /\ result' = NoResult
                  /\ UNCHANGED frames

\* binomial_price, lines 146-157: one pass of the outer loop
BinomialLevel ==
    /\ pc = "induct"
    /\ n >= 0
    /\ values' = induction_level(values, n, args.S, args.K, loc,
                                 Lower(args.option_type), args.american)
    /\ n' = n - 1
    /\ UNCHANGED <<pc, fn, args, loc, result, frames>>

\* binomial_price, line 159: return float(values[0])
BinomialReturn ==
    /\ pc = "induct"
    /\ n < 0
    /\ result' = Ret(values[0])
    /\ pc' = "done"
    /\ UNCHANGED <<fn, args, values, n, loc, frames>>

\* the caller has the outcome; the call's locals are gone
Finish ==
    /\ pc = "done"
    /\ pc' = "idle"
    /\ fn' = "none"
    /\ args' = NoArgs
    /\ values' = <<>>
    /\ n' = 0
    /\ loc' = NoLoc
    /\ result' = NoResult
    /\ UNCHANGED frames

Next ==
    \/ CallBsPrice
    \/ CallBsGreeks
    \/ BinomialEnter
    \/ BinomialLevel
    \/ BinomialReturn
    \/ CallOptionsBsPrice
    \/ CallOptionsBinomialPrice
    \/ CallPutFromCall
    \/ CallCallFromPut
    \/ CallParityGap
    \/ CallParityBounds
    \/ CallFixedIncomeBondPrice
    \/ CallBondsBondPrice
    \/ CallPerformanceSharpe
    \/ CallMetricsSharpe
    \/ Finish

Spec == Init /\ [][Next]_vars

(***************************************************************************)
(* The pricing functions called from several threads at once.  Each call   *)
(* has its own frame of locals; the steps of the calls in progress         *)
(* interleave in any order.                                                *)
(***************************************************************************)
ThreadSteps == 1..(MaxSteps - 1)

ThreadBinomialArgs ==
    [S : {SCALE, 2 * SCALE}, K : {SCALE}, r : {SCALE \div 20}, q : {0},
     sigma : {0, (2 * SCALE) \div 5}, T : {SCALE}, steps : ThreadSteps,
     option_type : {CALL, PUT}, american : BOOLEAN]

ThreadBsArgs ==
    [S : {SCALE, 2 * SCALE}, K : {SCALE}, r : {SCALE \div 20}, q : {0},
     sigma : {0, (2 * SCALE) \div 5}, T : {SCALE}, steps : {0},
     option_type : {CALL, PUT}, american : {FALSE}]

\* the frame of a call that has finished with the outcome out
done_frame(f, a, out) ==
    [pc |-> "done", fn |-> f, args |-> a, values |-> <<>>, n |-> 0,
     loc |-> NoLoc, result |-> out]

\* binomial_price, lines 119-143: the frame after the entry checks, the
\* lattice parameters and the terminal payoffs
enter_frame(a) ==
    LET v  == binomial_validation(a.sigma, a.steps, a.option_type)
        ot == Lower(a.option_type)
        o  == lattice_params(a.r, a.q, a.sigma, a.T, a.steps)
    IN  IF v # "none" THEN done_frame("binomial_price", a, Raise(v))
        ELSE IF a.T <= 0
        THEN done_frame("binomial_price", a, Ret(Intrinsic(a.S, a.K, ot)))
        ELSE IF o.kind = "raise" THEN done_frame("binomial_price", a, o)
        ELSE [pc |-> "induct", fn |-> "binomial_price", args |-> a,
              values |-> terminal_payoffs(a.S, a.K, o.value.u, o.value.d,
                                          a.steps, ot),
              n |-> a.steps - 1, loc |-> o.value, result |-> NoResult]

\* dt, u, d, disc and p as every thread reads them if they were kept in
\* one place for all calls
frame_loc_shared(fr, t) == fr[1].loc

\* dt, u, d, disc and p as thread t reads them: locals of its own call
frame_loc(fr, t) == fr[t].loc

\* binomial_price, lines 146-157: one pass of the outer loop in thread t
level_frame(fr, t) ==
    [fr[t] EXCEPT
       !.values = induction_level(fr[t].values, fr[t].n, fr[t].args.S,
                                  fr[t].args.K, frame_loc(fr, t),
                                  Lower(fr[t].args.option_type),
                                  fr[t].args.american),
       !.n = fr[t].n - 1]

ThreadCallBsPrice(t) ==
    /\ frames[t].pc = "idle"
    /\ \E a \in ThreadBsArgs :
         frames' = [frames EXCEPT ![t] =
                      done_frame("bs_price", a,
                                 bs_price(a.S, a.K, a.r, a.q, a.sigma, a.T,
                                          a.option_type))]
    /\ UNCHANGED <<pc, fn, args, values, n, loc, result>>

ThreadCallBsGreeks(t) ==
    /\ frames[t].pc = "idle"
    /\ \E a \in ThreadBsArgs :
         frames' = [frames EXCEPT ![t] =
                      done_frame("bs_greeks", a,
                                 bs_greeks(a.S, a.K, a.r, a.q, a.sigma, a.T,
                                           a.option_type))]
    /\ UNCHANGED <<pc, fn, args, values, n, loc, result>>

ThreadBinomialEnter(t) ==
    /\ frames[t].pc = "idle"
    /\ \E a \in ThreadBinomialArgs : frames' = [frames EXCEPT ![t] = enter_frame(a)]
    /\ UNCHANGED <<pc, fn, args, values, n, loc, result>>

ThreadBinomialLevel(t) ==
    /\ frames[t].pc = "induct"
    /\ frames[t].n >= 0
    /\ frames' = [frames EXCEPT ![t] = level_frame(frames, t)]
    /\ UNCHANGED <<pc, fn, args, values, n, loc, result>>

\* line 159: return float(values[0]); the frame is dropped on return
ThreadBinomialReturn(t) ==
    /\ frames[t].pc = "induct"
    /\ frames[t].n < 0
    /\ frames' = [frames EXCEPT ![t] =
                    done_frame("binomial_price", frames[t].args,
                               Ret(frames[t].values[0]))]
    /\ UNCHANGED <<pc, fn, args, values, n, loc, result>>

ThreadFinish(t) ==
    /\ frames[t].pc = "done"
    /\ frames' = [frames EXCEPT ![t] = IdleFrame]
    /\ UNCHANGED <<pc, fn, args, values, n, loc, result>>

NextThreads ==
    \E t \in Threads :
        \/ ThreadCallBsPrice(t)
        \/ ThreadCallBsGreeks(t)
        \/ ThreadBinomialEnter(t)
        \/ ThreadBinomialLevel(t)
        \/ ThreadBinomialReturn(t)
        \/ ThreadFinish(t)

SpecThreads == Init /\ [][NextThreads]_vars

(***************************************************************************)
(* Properties.  A state with pc = "done" holds a finished call: its name,  *)
(* its arguments and its outcome.                                          *)
(***************************************************************************)
Done(f) == pc = "done" /\ fn = f

IsCall(a) == Lower(a.option_type) = CALL

IsPut(a) == Lower(a.option_type) = PUT

KnownTag(a) == IsCall(a) \/ IsPut(a)

\* the discounted forward S e^(-qT) - K e^(-rT), as the claims write it
Forward(a) == FMul(a.S, Exp(FMul(-a.q, a.T))) - FMul(a.K, Exp(FMul(-a.r, a.T)))

\* The tests accept 1e-6 on prices near 10 computed in double precision,
\* many units of the last place; here a price within a few units of the
\* last place (1/SCALE) of its target counts as equal.
ParityTol == 4

CallTol == 4

Within(x, y, tol) == Abs(x - y) <= tol

BsOf(a, tag) == bs_price(a.S, a.K, a.r, a.q, a.sigma, a.T, tag)

BinomialOf(a, tag, american) ==
    binomial_price(a.S, a.K, a.r, a.q, a.sigma, a.T, a.steps, tag, american)

\* C1: put-call parity of the analytic engine.  After bs_price has priced a
\* call with S > 0, K > 0, T > 0 and sigma >= 0, the call has returned, the
\* put of the same arguments returns too, call - put is the discounted
\* forward within the tolerance, parity_gap of the pair is 0 within it and
\* put_from_call of the call is the put within it; in the sigma <= 0 branch
\* the three hold exactly.
C1_PutCallParity ==
    (Done("bs_price") /\ IsCall(args) /\ args.S > 0 /\ args.K > 0
        /\ args.T > 0 /\ args.sigma >= 0)
    => LET put == BsOf(args, PUT)
           tol == IF args.sigma <= 0 THEN 0 ELSE ParityTol
       IN  /\ result.kind = "return"
           /\ put.kind = "return"
           /\ Within(result.value - put.value, Forward(args), tol)
           /\ Within(parity_gap(result.value, put.value, args.S, args.K,
                                args.r, args.q, args.T), 0, tol)
           /\ Within(put_from_call(result.value, args.S, args.K, args.r,
                                   args.q, args.T), put.value, tol)

\* C1 witness: a closed-form call price, in the money, with a put that is
\* worth something too.
C1_Witness ==
    /\ Done("bs_price") /\ IsCall(args) /\ args.S > args.K /\ args.K > 0
    /\ args.T > 0 /\ args.sigma > 0 /\ args.q > 0
    /\ result.kind = "return" /\ result.value > 0
    /\ BsOf(args, PUT).value > 0

\* C2: bs_price selects its branch by T first and sigma second.  With a
\* recognised tag: T <= 0 returns the intrinsic value whatever sigma, r, q
\* (and S, K) are; T > 0 and sigma <= 0 returns the discounted forward
\* intrinsic; neither branch evaluates d1 (no failure of log or of a
\* division can come out of them); with T > 0 and sigma > 0 the divisor
\* sigma*sqrt(T) is not 0 and the only failures are those of S / K and log.
C2_BranchByTThenSigma ==
    (Done("bs_price") /\ KnownTag(args))
    => LET f == Forward(args)
       IN  /\ args.T <= 0 =>
                 result = Ret(IF IsCall(args)
                              THEN (IF args.S - args.K > 0 THEN args.S - args.K ELSE 0)
                              ELSE (IF args.K - args.S > 0 THEN args.K - args.S ELSE 0))
           /\ (args.T > 0 /\ args.sigma <= 0) =>
                 result = Ret(IF IsCall(args)
                              THEN (IF f > 0 THEN f ELSE 0)
                              ELSE (IF -f > 0 THEN -f ELSE 0))
           /\ (args.T > 0 /\ args.sigma > 0) =>
                 /\ FMul(args.sigma, Sqrt(args.T)) # 0
                 /\ result.kind = "raise" =>
                       \/ args.K = 0 /\ result.error = ErrZeroDivision
                       \/ args.K # 0 /\ FDiv(args.S, args.K) <= 0
                            /\ result.error = ErrMathDomain
                 /\ result.kind = "return" => args.K # 0 /\ FDiv(args.S, args.K) > 0

\* C2 witness: T < 0 together with sigma <= 0 and rates that make the
\* forward intrinsic differ from the intrinsic value: T decided.
C2_Witness ==
    /\ Done("bs_price") /\ IsCall(args) /\ args.T < 0 /\ args.sigma <= 0
    /\ args.S > args.K /\ args.K > 0 /\ args.r > 0
    /\ result = Ret(args.S - args.K)
    /\ Forward(args) # args.S - args.K

\* C3: an American put is worth at least the European put.  Whenever
\* binomial_price returns a price for a put with american=True, the call
\* with american=False and otherwise the same arguments returns a price
\* that is not larger; clamped probabilities included.
C3_AmericanPutAtLeastEuropean ==
    (Done("binomial_price") /\ IsPut(args) /\ args.american
        /\ result.kind = "return")
    => LET eu == BinomialOf(args, args.option_type, FALSE)
       IN  eu.kind = "return" /\ result.value >= eu.value

\* C3 witness: a put on a lattice whose probability was clamped, with an
\* early-exercise premium.
C3_Witness ==
    /\ Done("binomial_price") /\ IsPut(args) /\ args.american
    /\ args.S > 0 /\ args.K > 0 /\ args.steps >= 2
    /\ loc.p # loc.p_raw
    /\ result.kind = "return"
    /\ result.value > BinomialOf(args, args.option_type, FALSE).value

\* the calls C4 is about: an American call, no dividend yield, on a lattice
C4_Case ==
    /\ fn = "binomial_price" /\ IsCall(args) /\ args.american
    /\ args.q = 0 /\ args.S > 0 /\ args.K > 0 /\ args.T > 0

\* C4 as claimed: for q = 0 the American call equals the European call for
\* every rate r and every lattice.
C4_AsClaimed ==
    (pc = "done" /\ C4_Case /\ result.kind = "return")
    => Within(result.value, BinomialOf(args, args.option_type, FALSE).value, CallTol)

\* C4 amended: for q = 0, a rate r >= 0 and a risk-neutral probability that
\* needed no clamping, the American call equals the European call within
\* the tolerance, and at no node of any level does the immediate-exercise
\* payoff exceed the continuation value by more than it.
C4_NoEarlyExerciseOfCall ==
    (C4_Case /\ args.r >= 0 /\ pc \in {"induct", "done"} /\ loc.p = loc.p_raw)
    => /\ (pc = "done" /\ result.kind = "return") =>
             Within(result.value, BinomialOf(args, args.option_type, FALSE).value,
                    CallTol)
       /\ (pc = "induct" /\ n >= 0) =>
             \A j \in 0..n :
                 exercise(args.S, args.K, loc.u, loc.d, n, j, CALL)
                     <= continuation(values, j, loc.disc, loc.p) + CallTol

\* C4 witness: such a call, in the money at the root, priced on at least two
\* levels: its exercise value is positive and it is still not exercised.
C4_Witness ==
    /\ pc = "done" /\ C4_Case /\ args.r > 0 /\ loc.p = loc.p_raw
    /\ args.steps >= 2 /\ args.S > args.K
    /\ result.kind = "return"
    /\ result.value > args.S - args.K
    /\ Within(result.value, BinomialOf(args, args.option_type, FALSE).value, CallTol)

PricingOps == {"bs_price", "bs_greeks", "binomial_price"}

\* C5 as claimed: every pricing operation rejects S <= 0, K <= 0, sigma < 0
\* and T < 0 at entry: such a call never returns.
C5_AsClaimed ==
    (pc = "done" /\ fn \in PricingOps
        /\ (args.S <= 0 \/ args.K <= 0 \/ args.sigma < 0 \/ args.T < 0))
    => result.kind = "raise"

\* C5 amended: of the contract-parameter invariants only sigma >= 0 is
\* checked at entry, and only by binomial_price: binomial_price with
\* sigma < 0 ends in a validation failure and returns no price.  S <= 0,
\* K <= 0 and T < 0 are rejected by none of the three operations and
\* sigma < 0 is not rejected by bs_price and bs_greeks: with a recognised
\* tag these two return whenever T <= 0 or sigma <= 0, whatever S and K are,
\* and binomial_price (steps >= 1, sigma >= 0) returns whenever T <= 0.
C5_OnlyBinomialSigmaChecked ==
    /\ (Done("binomial_price") /\ args.sigma < 0)
          => result.kind = "raise" /\ result.error \in ValidationErrors
    /\ (Done("binomial_price") /\ KnownTag(args) /\ args.steps >= 1
            /\ args.sigma >= 0 /\ args.T <= 0)
          => result.kind = "return"
    /\ (pc = "done" /\ fn \in {"bs_price", "bs_greeks"} /\ KnownTag(args)
            /\ (args.T <= 0 \/ args.sigma <= 0))
          => result.kind = "return"

\* C5 witness: binomial_price refusing a negative sigma that is the only
\* thing wrong with the call.
C5_Witness ==
    /\ Done("binomial_price") /\ KnownTag(args) /\ args.steps >= 1
    /\ args.S > 0 /\ args.K > 0 /\ args.T > 0 /\ args.sigma < 0
    /\ result = Raise(ErrSigma)

\* C6: an unrecognised tag (after lower-casing) makes bs_price, bs_greeks
\* and binomial_price fail with the option_type error and nothing else,
\* whatever the other arguments are: T <= 0, sigma <= 0, steps < 1, S <= 0
\* or K = 0 select no other outcome.
C6_UnknownTagFailsFirst ==
    (pc = "done" /\ fn \in PricingOps /\ ~KnownTag(args))
    => result = Raise(ErrOptionType)

\* C6 witness: bs_price with an unknown tag and T <= 0, sigma <= 0, where the
\* intrinsic shortcut would otherwise apply.
C6_Witness ==
    /\ Done("bs_price") /\ ~KnownTag(args) /\ args.T <= 0 /\ args.sigma <= 0
    /\ result = Raise(ErrOptionType)

\* C7 as claimed, for the two binomial_price of the repository: with S > 0
\* and K > 0, steps < 1 or sigma < 0 is a validation failure for every T.
C7_AsClaimed ==
    (pc = "done" /\ fn \in {"binomial_price", "options.binomial_price"}
        /\ args.S > 0 /\ args.K > 0
        /\ (args.steps < 1 \/ args.sigma < 0))
    => result.kind = "raise" /\ result.error \in ValidationErrors

\* C7 holds of qp.derivatives.binomial_price (it is qp.options.binomial_price
\* that tests T <= 0 before sigma).
C7_DerivativesOnly ==
    (Done("binomial_price") /\ (args.steps < 1 \/ args.sigma < 0))
    => result.kind = "raise" /\ result.error \in ValidationErrors

\* C8 as claimed: once validation has passed (recognised tag, steps >= 1,
\* sigma >= 0) with S > 0, K > 0 and T >= 0, binomial_price returns a price.
C8_AsClaimed ==
    (Done("binomial_price") /\ KnownTag(args) /\ args.steps >= 1
        /\ args.sigma >= 0 /\ args.S > 0 /\ args.K > 0 /\ args.T >= 0)
    => result.kind = "return"

\* a binomial_price call that has computed its lattice parameters
OnLattice == fn = "binomial_price" /\ pc \in {"induct", "done"} /\ loc # NoLoc

\* C9: the probability the backward induction uses is in [0, 1]: a computed
\* p < 0 has become 0, a computed p > 1 has become 1, a p inside [0, 1] is
\* unchanged, and the call that computed it returns a price (in
\* qp.options as well, where every call that reaches the lattice with
\* sigma > 0 returns).
C9_ProbabilityClamped ==
    /\ OnLattice =>
          /\ 0 <= loc.p /\ loc.p <= SCALE
          /\ loc.p_raw < 0 => loc.p = 0
          /\ loc.p_raw > SCALE => loc.p = SCALE
          /\ (0 <= loc.p_raw /\ loc.p_raw <= SCALE) => loc.p = loc.p_raw
          /\ pc = "done" => result.kind = "return"
    /\ (Done("options.binomial_price") /\ args.steps >= 1 /\ args.T > 0
            /\ args.sigma > 0)
          => result.kind = "return"

\* C9 witness: a finished call whose computed p was negative.
C9_Witness ==
    /\ OnLattice /\ pc = "done" /\ loc.p_raw < 0 /\ loc.p = 0
    /\ result.kind = "return"

\* C10: for T <= 0 and arguments that pass the entry checks, binomial_price
\* returns the intrinsic value, a function of S, K and the tag alone, which
\* is what bs_price returns for the same arguments; no lattice was built.
C10_IntrinsicAtExpiry ==
    (Done("binomial_price") /\ KnownTag(args) /\ args.steps >= 1
        /\ args.sigma >= 0 /\ args.T <= 0)
    => /\ result = Ret(IF IsCall(args)
                       THEN (IF args.S - args.K > 0 THEN args.S - args.K ELSE 0)
                       ELSE (IF args.K - args.S > 0 THEN args.K - args.S ELSE 0))
       /\ result = BsOf(args, args.option_type)
       /\ values = <<>> /\ loc = NoLoc

\* C10 witness: an American call in the money at T = 0 on three steps.
C10_Witness ==
    /\ Done("binomial_price") /\ IsCall(args) /\ args.american
    /\ args.T = 0 /\ args.steps = MaxSteps /\ args.sigma > 0 /\ args.r > 0
    /\ args.S > args.K
    /\ result = Ret(args.S - args.K)

\* C11: bs_greeks either fails, returning no record, or returns a record
\* with exactly the seven fields of GreekFields.  For a known tag and
\* T <= 0 or sigma <= 0 it returns, its six sensitivities are 0, its price
\* is what bs_price returns for the same arguments, and d1 and d2 were not
\* evaluated: the call returns where d1 would have raised (K = 0, S <= 0).
C11_GreeksRecord ==
    Done("bs_greeks")
    => /\ result.kind \in {"return", "raise"}
       /\ result.kind = "raise" => result.value = 0
       /\ result.kind = "return" => DOMAIN result.value = GreekFields
       /\ (KnownTag(args) /\ (args.T <= 0 \/ args.sigma <= 0))
             => /\ result.kind = "return"
                /\ \A g \in GreekFields \ {"price"} : result.value[g] = 0
                /\ Ret(result.value.price) = BsOf(args, args.option_type)

\* C11 witness: a degenerate call (sigma > 0, T = 0) with K = 0, where d1
\* raises ZeroDivisionError, has returned the zero-filled record.
C11_Witness ==
    /\ Done("bs_greeks") /\ IsPut(args) /\ args.T = 0 /\ args.sigma > 0
    /\ args.K = 0 /\ args.S > 0
    /\ d1(args.S, args.K, args.r, args.q, args.sigma, SCALE).kind = "raise"
    /\ result = Ret(zero_greeks(0))

\* the spellings of the two tags among TagValues, written out
CallSpellings == {<<"c","a","l","l">>, <<"C","A","L","L">>}

PutSpellings == {<<"p","u","t">>, <<"P","u","t">>}

\* C12: the tag is accepted in any case.  A call of bs_price, bs_greeks or
\* binomial_price with a spelling of "call" (of "put") has the outcome of
\* the same call with the lowercase tag.
C12_TagCaseInsensitive ==
    \A f \in PricingOps :
        (Done(f) /\ args.option_type \in CallSpellings \cup PutSpellings)
        => LET tag == IF args.option_type \in CallSpellings
                      THEN <<"c","a","l","l">> ELSE <<"p","u","t">>
           IN  result =
                 CASE f = "bs_price" -> BsOf(args, tag)
                   [] f = "bs_greeks" ->
                        bs_greeks(args.S, args.K, args.r, args.q, args.sigma,
                                  args.T, tag)
                   [] f = "binomial_price" -> BinomialOf(args, tag, args.american)

\* C12 witness: binomial_price has priced an American "Put" through the
\* lattice.
C12_Witness ==
    /\ Done("binomial_price") /\ args.option_type = <<"P","u","t">>
    /\ args.american /\ args.T > 0 /\ args.steps = MaxSteps
    /\ result.kind = "return" /\ result.value > 0

\* the two prices of bs_price next to the bounds of a finished parity_bounds
BoundsCase(sigma) ==
    /\ Done("parity_bounds") /\ args.S > 0 /\ args.K > 0 /\ args.T >= 0
    /\ sigma >= 0

PriceIn(a, sigma, tag) == bs_price(a.S, a.K, a.r, a.q, sigma, a.T, tag)

RoundErr(x) == Grain(x) \div 2

\* the magnitude the sums of a parity conversion reach
ParityMagnitude(a) ==
    Abs(a.price) + Discounted(a.S, a.q, a.T) + Discounted(a.K, a.r, a.T)

\* a finished put_from_call or call_from_put, and the conversion back
IsConversion == Done("put_from_call") \/ Done("call_from_put")

ConvertedBack ==
    IF fn = "put_from_call"
    THEN call_from_put(result.value, args.S, args.K, args.r, args.q, args.T)
    ELSE put_from_call(result.value, args.S, args.K, args.r, args.q, args.T)

GapOfPair ==
    IF fn = "put_from_call"
    THEN parity_gap(args.price, result.value, args.S, args.K, args.r, args.q, args.T)
    ELSE parity_gap(result.value, args.price, args.S, args.K, args.r, args.q, args.T)

\* C14 as claimed: converting a price and converting the result back gives
\* the price again, exactly, and the pair has a parity gap of exactly 0.
C14_AsClaimed ==
    IsConversion => (ConvertedBack = args.price /\ GapOfPair = 0)

\* C14: the conversion back gives the price up to the rounding of the four
\* sums on the way, and the gap of the pair is 0 up to the same; both are
\* exact where no sum is rounded (every magnitude below MANT).
C14_InverseUpToRounding ==
    IsConversion
    => LET tol == 4 * RoundErr(ParityMagnitude(args))
       IN  /\ Within(ConvertedBack, args.price, tol)
           /\ Within(GapOfPair, 0, tol)

\* C14 witness: a conversion whose sums are rounded, and which comes back
\* to another price than it started from.
C14_Witness ==
    /\ Done("put_from_call") /\ args.S > MANT /\ args.T > 0
    /\ RoundErr(ParityMagnitude(args)) > 0
    /\ ConvertedBack # args.price
    /\ Within(ConvertedBack, args.price, 4 * RoundErr(ParityMagnitude(args)))

\* bs_greeks of the arguments of the call in progress, with another tag
GreeksOf(a, tag) == bs_greeks(a.S, a.K, a.r, a.q, a.sigma, a.T, tag)

\* C15: for T > 0 and sigma > 0 the call and the put of the same other
\* arguments have the same gamma and the same vega, exactly; when one of
\* the two calls of bs_greeks fails, the other fails the same way.
C15_GammaVegaSharedByCallAndPut ==
    (Done("bs_greeks") /\ KnownTag(args) /\ args.T > 0 /\ args.sigma > 0)
    => LET other == GreeksOf(args, IF IsCall(args) THEN PUT ELSE CALL)
       IN  /\ result.kind = other.kind
           /\ result.kind = "raise" => result = other
           /\ result.kind = "return"
                 => /\ result.value.gamma = other.value.gamma
                    /\ result.value.vega = other.value.vega

\* C15 witness: a put with a negative delta and a positive gamma and vega,
\* which are the call's.
C15_Witness ==
    /\ Done("bs_greeks") /\ IsPut(args) /\ args.T > 0 /\ args.sigma > 0
    /\ result.kind = "return"
    /\ result.value.delta < 0 /\ result.value.gamma > 0 /\ result.value.vega > 0
    /\ GreeksOf(args, CALL).value.delta > 0
    /\ GreeksOf(args, CALL).value.gamma = result.value.gamma

\* the tests' tolerance of the binomial parity, abs(lhs - rhs) < 1e-2
BinomialTol == 100

\* a finished European call of one of the two binomial_price functions
\* whose arguments pass the entry checks, T > 0
BinomialParityCase ==
    /\ Done("binomial_price") \/ Done("options.binomial_price")
    /\ KnownTag(args) /\ args.steps >= 1 /\ args.sigma >= 0 /\ args.T > 0
    /\ ~args.american

\* the European price of the same arguments under the tag
EuropeanOf(a, tag) ==
    IF fn = "binomial_price" THEN BinomialOf(a, tag, FALSE)
    ELSE options_binomial_price(a.S, a.K, a.r, a.q, a.sigma, a.T, a.steps,
                                tag, FALSE)

BinomialParity ==
    LET call == EuropeanOf(args, CALL)
        put  == EuropeanOf(args, PUT)
    IN  /\ call.kind = "return" /\ put.kind = "return"
        /\ Abs((call.value - put.value) - Forward(args)) < BinomialTol

LatticeOf(a) == lattice_params(a.r, a.q, a.sigma, a.T, a.steps)

\* the computed probability is in [0, 1]: the clamp changed nothing
Unclamped(a) ==
    /\ LatticeOf(a).kind = "return"
    /\ LatticeOf(a).value.p = LatticeOf(a).value.p_raw

\* C16 as claimed: parity of the European binomial prices for every input
\* that passes the entry checks with T > 0; here for those with S > 0,
\* K > 0 and sigma > 0 alone, where the call returns a price.
C16_AsClaimed ==
    (BinomialParityCase /\ args.S > 0 /\ args.K > 0 /\ args.sigma > 0)
    => BinomialParity

\* C16: parity of the European binomial prices where sigma > 0 and the
\* computed probability needed no clamping.  At sigma = 0 the call does not
\* return (u - d = 0), so there are no two prices to compare.
C16_BinomialParityUnclamped ==
    BinomialParityCase
    => /\ (args.sigma > 0 /\ Unclamped(args)) => BinomialParity
       /\ args.sigma = 0 => result = Raise(ErrZeroDivision)

\* C16 witness: a European put priced on the full lattice with an
\* unclamped probability strictly inside (0, 1), in parity with its call.
C16_Witness ==
    /\ BinomialParityCase /\ fn = "binomial_price" /\ IsPut(args)
    /\ args.steps = MaxSteps /\ args.sigma > 0 /\ args.S > 0 /\ args.K > 0
    /\ Unclamped(args) /\ loc.p > 0 /\ loc.p < SCALE
    /\ result.kind = "return" /\ result.value > 0
    /\ BinomialParity

\* the outcome of a pricing function as a function of its arguments
OutcomeOf(f, a) ==
    CASE f = "bs_price" -> bs_price(a.S, a.K, a.r, a.q, a.sigma, a.T, a.option_type)
      [] f = "bs_greeks" -> bs_greeks(a.S, a.K, a.r, a.q, a.sigma, a.T, a.option_type)
      [] f = "binomial_price" -> BinomialOf(a, a.option_type, a.american)

\* the working array of binomial_price before level m is processed, as a
\* function of the arguments: the terminal payoffs reduced through the
\* levels steps-1, ..., m+1
RECURSIVE ValuesBefore(_, _)
ValuesBefore(a, m) ==
    LET lp == LatticeOf(a).value
        ot == Lower(a.option_type)
    IN  IF m >= a.steps - 1
        THEN terminal_payoffs(a.S, a.K, lp.u, lp.d, a.steps, ot)
        ELSE induction_level(ValuesBefore(a, m + 1), m + 1, a.S, a.K, lp, ot,
                             a.american)

\* C17: every operation is pure.  With calls in progress in two threads at
\* once, in any interleaving and after any earlier calls: the outcome of a
\* finished call is a function of its own arguments, so two calls with the
\* same function and arguments have the same outcome; the working array and
\* the lattice parameters of a call in progress are a function of its own
\* arguments and level; and nothing of a call is left once it has
\* returned: a finished frame holds no array, an idle thread nothing.
C17_Pure ==
    /\ \A t \in Threads :
          LET f == frames[t]
          IN  /\ f.pc = "done" =>
                    /\ f.result = OutcomeOf(f.fn, f.args)
                    /\ f.values = <<>> /\ f.loc = NoLoc
              /\ f.pc = "induct" =>
                    /\ f.loc = LatticeOf(f.args).value
                    /\ f.values = ValuesBefore(f.args, f.n)
              /\ f.pc = "idle" => f = IdleFrame
    /\ \A t1, t2 \in Threads :
          (/\ frames[t1].pc = "done" /\ frames[t2].pc = "done"
           /\ frames[t1].fn = frames[t2].fn
           /\ frames[t1].args = frames[t2].args)
          => frames[t1].result = frames[t2].result

\* C17 witness: thread 1 has returned a price from the lattice while
\* thread 2 is inside the backward induction of another call, on another
\* array.
C17_Witness ==
    /\ frames[1].pc = "done" /\ frames[1].fn = "binomial_price"
    /\ frames[1].args.steps = MaxSteps - 1 /\ frames[1].result.kind = "return"
    /\ frames[1].result.value > 0
    /\ frames[2].pc = "induct" /\ frames[2].n = 0
    /\ frames[2].args # frames[1].args
    /\ frames[2].values # <<>>

\* a finished call of one of the two bond_price functions
BondDone == Done("fixed_income.bond_price") \/ Done("bonds.bond_price")

\* freq is an integer >= 1
FreqValid(a) == a.freq.is_int /\ a.freq.value >= 1

\* the arguments the claim rejects: face_value <= 0, maturity <= 0, freq
\* not an integer >= 1, or round(maturity * freq) < 1
BondRejected(a) ==
    \/ a.face_value <= 0
    \/ a.maturity <= 0
    \/ ~FreqValid(a)
    \/ /\ ~IsInf(a.maturity)
       /\ RoundHalfEven(a.maturity * a.freq.value) < 1

\* C18 as claimed: for the rejected arguments both bond_price functions
\* raise ValueError and return no price.
C18_AsClaimed ==
    (BondDone /\ BondRejected(args))
    => (result.kind = "raise" /\ result.error \in BondValueErrors)

\* C18 for qp.fixed_income alone, and for qp.bonds with a finite maturity:
\* there the rejected arguments raise ValueError.
C18_FiniteMaturity ==
    (BondDone /\ BondRejected(args)
        /\ (fn = "bonds.bond_price" => ~IsInf(args.maturity)))
    => (result.kind = "raise" /\ result.error \in BondValueErrors)

\* a finished call of one of the two sharpe functions
SharpeDone == Done("performance.sharpe") \/ Done("metrics.sharpe")

SharpeOf(f, returns, risk_free, a) ==
    IF f = "performance.sharpe"
    THEN performance_sharpe(returns, risk_free, a.periods_per_year, a.ddof)
    ELSE metrics_sharpe(returns, risk_free, a.periods_per_year, a.ddof)

\* the series of the length of xs filled with x
Filled(xs, x) == [i \in DOMAIN xs |-> x]

HasNaN(xs) == \E i \in DOMAIN xs : IsNaN(xs[i])

\* what the claim says of a finished call: a risk_free series is accepted
\* exactly when it is as long as the returns the caller passed and is
\* refused with ValueError otherwise; a scalar risk_free gives what the
\* series filled with it gives
SharpeAsClaimed ==
    /\ ~args.risk_free.is_scalar
          => /\ result.kind = "return"
                   <=> Len(args.risk_free.series) = Len(args.returns)
             /\ result.kind = "raise"
                   => result.error \in {ErrRiskFreeShape, ErrRiskFreeShapeLegacy}
    /\ args.risk_free.is_scalar
          => result = SharpeOf(fn, args.returns,
                               SeriesRate(Filled(args.returns, args.risk_free.value)),
                               args)

\* C19 as claimed, for every returns sequence, NaN entries included.
C19_AsClaimed == SharpeDone => SharpeAsClaimed

\* C19 where it holds: for qp.metrics.sharpe, and for qp.performance.sharpe
\* on returns without NaN entries.
C19_WithoutNaN ==
    (SharpeDone /\ (fn = "performance.sharpe" => ~HasNaN(args.returns)))
    => SharpeAsClaimed

\* a binomial_price call inside its backward induction: the terminal
\* payoffs are built, n is the next level of the outer loop
InInduction == fn = "binomial_price" /\ pc = "induct"

\* the passes of the outer loop made so far
Reductions == args.steps - 1 - n

\* C20: the lattice of binomial_price for T > 0.  The working array starts
\* as the steps+1 terminal payoffs, node j at spot S u^j d^(steps-j).  The
\* levels are processed in the order steps-1, ..., 0: before level n the
\* array is the terminal payoffs reduced through the levels steps-1, ...,
\* n+1 and has n+2 entries, the n+1 of level n+1 and one more, so that the
\* reads values[j] and values[j+1], j = 0..n, are inside it.  The loop ends
\* after exactly steps reductions with one entry, the price returned.
C20_LatticeShape ==
    /\ InInduction =>
          /\ args.T > 0
          /\ n \in -1..(args.steps - 1)
          /\ DOMAIN values = 0..(n + 1)
          /\ Reductions \in 0..args.steps
          /\ n = args.steps - 1 =>
                \A j \in 0..args.steps :
                    LET S_T == FMul(FMul(args.S, Pow(loc.u, j)),
                                    Pow(loc.d, args.steps - j))
                    IN  values[j] = IF IsCall(args)
                                    THEN (IF S_T - args.K > 0 THEN S_T - args.K ELSE 0)
                                    ELSE (IF args.K - S_T > 0 THEN args.K - S_T ELSE 0)
          /\ n >= 0 => \A j \in 0..n : {j, j + 1} \subseteq DOMAIN values
          /\ values = ValuesBefore(args, n)
    /\ (Done("binomial_price") /\ loc # NoLoc) =>
          /\ n = -1 /\ Reductions = args.steps
          /\ DOMAIN values = {0}
          /\ values = ValuesBefore(args, -1)
          /\ result = Ret(values[0])

\* C20 witness: a call on MaxSteps steps that has returned the one entry
\* left after MaxSteps reductions.
C20_Witness ==
    /\ Done("binomial_price") /\ loc # NoLoc /\ args.steps = MaxSteps
    /\ Reductions = MaxSteps /\ DOMAIN values = {0}
    /\ result = Ret(values[0]) /\ result.value > 0

\* a finished European call of one of the two binomial_price functions
\* that went through the lattice: T > 0 and a price returned
EuropeanLatticeDone ==
    /\ Done("binomial_price") \/ (Done("options.binomial_price")
                                     /\ args.option_type \in {CALL, PUT})
    /\ KnownTag(args) /\ args.steps >= 1 /\ args.sigma >= 0 /\ args.T > 0
    /\ ~args.american
    /\ result.kind = "return"

\* the binomial coefficient C(m, k)
RECURSIVE Choose(_, _)
Choose(m, k) ==
    IF k = 0 \/ k = m THEN 1 ELSE Choose(m - 1, k - 1) + Choose(m - 1, k)

\* C(steps, j) p^j (1 - p)^(steps - j) payoff_j, summed over the leaves 0..m
RECURSIVE LeafSum(_, _, _)
LeafSum(a, lp, m) ==
    LET tv == terminal_payoffs(a.S, a.K, lp.u, lp.d, a.steps, Lower(a.option_type))
        w  == FMul(Pow(lp.p, m), Pow(SCALE - lp.p, a.steps - m))
        t  == Choose(a.steps, m) * FMul(w, tv[m])
    IN  IF m = 0 THEN t ELSE LeafSum(a, lp, m - 1) + t

\* the risk-neutral expectation of the terminal payoff, discounted
BinomialSum(a) ==
    LET lp == LatticeOf(a).value
    IN  FMul(Pow(lp.disc, a.steps), LeafSum(a, lp, a.steps))

\* the rounding of the two computations: each makes a few products per
\* leaf and level, every one rounded to the last place, and the error grows
\* with the number of levels
SumTol(a) == ParityTol * (a.steps + 1)

\* C21: with american = False and T > 0 the price the backward induction
\* returns is the discounted binomial sum of the terminal payoffs under the
\* clamped p, up to the rounding of the two computations, for both
\* binomial_price functions and every steps >= 1 of the grid.
C21_InductionIsBinomialSum ==
    EuropeanLatticeDone => Within(result.value, BinomialSum(args), SumTol(args))

\* C21 witness: a put on MaxSteps steps with p strictly inside (0, 1) and a
\* positive price equal to the sum.
C21_Witness ==
    /\ EuropeanLatticeDone /\ fn = "binomial_price" /\ IsPut(args)
    /\ args.steps = MaxSteps /\ args.S > 0 /\ args.K > 0
    /\ loc.p > 0 /\ loc.p < SCALE
    /\ result.value > 0
    /\ Within(result.value, BinomialSum(args), SumTol(args))

\* the arguments with american = False, everything else the same
European(a) == [a EXCEPT !.american = FALSE]

\* vals holds level m of the lattice of an American call with arguments a:
\* every node (m, j) is worth at least its immediate-exercise payoff at the
\* spot S u^j d^(m-j) and at least what the European induction stores there
NodesDominate(a, vals, m) ==
    LET lp == LatticeOf(a).value
        ot == Lower(a.option_type)
        eu == ValuesBefore(European(a), m - 1)
    IN  /\ DOMAIN vals = 0..m
        /\ \A j \in 0..m :
              /\ vals[j] >= exercise(a.S, a.K, lp.u, lp.d, m, j, ot)
              /\ vals[j] >= eu[j]

\* a finished American call of f that returned a price
AmericanDone(f) == Done(f) /\ args.american /\ result.kind = "return"

\* C22: with american = True, in both binomial_price functions, for call and
\* put and every input that passes validation: the value stored at every
\* lattice node (n, j), the terminal level included, is at least the
\* immediate-exercise payoff at that node and at least the value the
\* European induction stores there; the price returned is at least the
\* intrinsic value at the spot S and at least the European price, also on
\* the T <= 0 shortcut.
C22_AmericanDominates ==
    /\ (InInduction /\ args.american) => NodesDominate(args, values, n + 1)
    /\ AmericanDone("binomial_price") =>
          LET eu == BinomialOf(args, args.option_type, FALSE)
          IN  /\ loc # NoLoc => NodesDominate(args, values, 0)
              /\ result.value >= Intrinsic(args.S, args.K, Lower(args.option_type))
              /\ eu.kind = "return" /\ result.value >= eu.value
    /\ (AmericanDone("options.binomial_price") /\ args.option_type \in {CALL, PUT}) =>
          LET eu == options_binomial_price(args.S, args.K, args.r, args.q,
                                           args.sigma, args.T, args.steps,
                                           args.option_type, FALSE)
          IN  /\ args.T > 0 =>
                    /\ \A m \in 0..args.steps :
                          NodesDominate(args, ValuesBefore(args, m - 1), m)
                    /\ result.value = ValuesBefore(args, -1)[0]
              /\ result.value >= options_intrinsic(args.S, args.K, args.option_type)
              /\ eu.kind = "return" /\ result.value >= eu.value

\* C22 witness: an American put at the money on MaxSteps levels, returned:
\* worth more than its intrinsic value and more than the European put, every
\* node of its lattice having passed the comparison.
C22_Witness ==
    /\ AmericanDone("binomial_price") /\ IsPut(args) /\ loc # NoLoc
    /\ args.steps = MaxSteps /\ args.S > 0 /\ args.S = args.K
    /\ loc.p > 0 /\ loc.p < SCALE
    /\ NodesDominate(args, values, 0)
    /\ result.value > Intrinsic(args.S, args.K, PUT)
    /\ result.value > BinomialOf(args, args.option_type, FALSE).value

\* C23: no value of the lattice of binomial_price is negative.  At every
\* level of the backward induction, terminal level included, for call and
\* put, American or European, every entry of the working array is >= 0; the
\* discount factor is > 0 and the clamped p lies in [0, 1]; and every price
\* returned, from the lattice or from the T <= 0 shortcut, is >= 0.
C23_LatticeNonNegative ==
    /\ InInduction =>
          /\ \A j \in DOMAIN values : values[j] >= 0
          /\ loc.disc > 0
          /\ 0 <= loc.p /\ loc.p <= SCALE
    /\ (Done("binomial_price") /\ result.kind = "return") =>
          /\ result.value >= 0
          /\ loc # NoLoc => \A j \in DOMAIN values : values[j] >= 0

\* C23 witness: the induction of a call on MaxSteps steps about to process
\* its last level, with a probability that had to be clamped and a negative
\* rate (discount factor above 1): one of the two entries left is positive,
\* none is negative.
C23_Witness ==
    /\ InInduction /\ args.steps = MaxSteps /\ n = 0
    /\ loc.p # loc.p_raw /\ loc.disc > SCALE
    /\ \A j \in DOMAIN values : values[j] >= 0
    /\ \E j \in DOMAIN values : values[j] > 0

\* a finished call of the legacy function f with the tag 'call' or 'put'
LegacyDone(f) == Done(f) /\ args.option_type \in {CALL, PUT}

\* the outcome qp.derivatives gives for the arguments of the finished call
DerivativesOutcome ==
    IF fn = "options.bs_price"
    THEN bs_price(args.S, args.K, args.r, args.q, args.sigma, args.T,
                  args.option_type)
    ELSE binomial_price(args.S, args.K, args.r, args.q, args.sigma, args.T,
                        args.steps, args.option_type, args.american)

\* the legacy binomial_price took the T <= 0 shortcut with a sigma that
\* qp.derivatives rejects before it
ShortcutBeforeSigma ==
    /\ fn = "options.binomial_price"
    /\ args.steps >= 1 /\ args.T <= 0 /\ args.sigma < 0

\* C24 as claimed: for every argument tuple with the tag 'call' or 'put',
\* options.bs_price and options.binomial_price have the outcome of
\* derivatives.bs_price and derivatives.binomial_price: the same value, or
\* the same failure, the order of the checks of steps, sigma and T <= 0
\* included.
C24_AsClaimed ==
    (LegacyDone("options.bs_price") \/ LegacyDone("options.binomial_price"))
    => result = DerivativesOutcome

\* what does hold: the two bs_price agree everywhere, and the two
\* binomial_price agree except where the legacy one returns the intrinsic
\* value for T <= 0 without having looked at a negative sigma, which
\* qp.derivatives rejects.
C24_EquivalentButSigmaOrder ==
    (LegacyDone("options.bs_price") \/ LegacyDone("options.binomial_price"))
    => IF ShortcutBeforeSigma
       THEN /\ result = Ret(options_intrinsic(args.S, args.K, args.option_type))
            /\ DerivativesOutcome = Raise(ErrSigma)
       ELSE result = DerivativesOutcome
====
